---- MODULE Spec2Model ----
(***************************************************************************)
(* Model of the typestate diagram generator:                               *)
(*   scripts/generate_diagrams.py  - the direct entry point (main)         *)
(*   hooks/generate_diagrams.py    - the MkDocs pre-build hook             *)
(* Strings are sequences of one-character strings so that strip, replace,  *)
(* split, lower and path ordering are computed as Python computes them.    *)
(***************************************************************************)
EXTENDS Integers, Sequences, FiniteSets, TLC

(***************************************************************************)
(* Bounds of the model                                                     *)
(***************************************************************************)
MaxRuns == 2

\* lines of a snippet whose declared name is extracted
MaxLines == 2

(***************************************************************************)
(* Python str operations                                                   *)
(***************************************************************************)
Ascii == << "\n", " ", ".", ":",
            "A", "B", "C", "D", "E", "F", "G", "H", "I", "J", "K", "L", "M",
            "N", "O", "P", "Q", "R", "S", "T", "U", "V", "W", "X", "Y", "Z",
            "[", "]", "_",
            "a", "b", "c", "d", "e", "f", "g", "h", "i", "j", "k", "l", "m",
            "n", "o", "p", "q", "r", "s", "t", "u", "v", "w", "x", "y", "z" >>

Code(c) == CHOOSE i \in 1..Len(Ascii) : Ascii[i] = c

IsUpper(c) == Code(c) >= Code("A") /\ Code(c) <= Code("Z")

LowerChar(c) == IF IsUpper(c) THEN Ascii[Code(c) - Code("A") + Code("a")] ELSE c

Lower(s) == [i \in 1..Len(s) |-> LowerChar(s[i])]

Whitespace == {" ", "\n"}

StartsWith(s, p) == Len(s) >= Len(p) /\ SubSeq(s, 1, Len(p)) = p

EndsWith(s, p) == Len(s) >= Len(p) /\ SubSeq(s, Len(s) - Len(p) + 1, Len(s)) = p

RECURSIVE LStrip(_, _)
LStrip(s, chars) ==
    IF s # << >> /\ Head(s) \in chars THEN LStrip(Tail(s), chars) ELSE s

RECURSIVE RStrip(_, _)
RStrip(s, chars) ==
    IF s # << >> /\ s[Len(s)] \in chars
    THEN RStrip(SubSeq(s, 1, Len(s) - 1), chars)
    ELSE s

Strip(s) == RStrip(LStrip(s, Whitespace), Whitespace)

RECURSIVE Replace(_, _, _)
Replace(s, old, new) ==
    IF s = << >> THEN << >>
    ELSE IF StartsWith(s, old)
         THEN new \o Replace(SubSeq(s, Len(old) + 1, Len(s)), old, new)
         ELSE << Head(s) >> \o Replace(Tail(s), old, new)

Contains(s, c) == \E i \in 1..Len(s) : s[i] = c

\* s.split(c)[0]
SplitFirst(s, c) ==
    IF Contains(s, c)
    THEN SubSeq(s, 1, (CHOOSE i \in 1..Len(s) : s[i] = c /\ \A j \in 1..(i - 1) : s[j] # c) - 1)
    ELSE s

\* s.split(c)
RECURSIVE Split(_, _)
Split(s, c) ==
    IF Contains(s, c)
    THEN << SplitFirst(s, c) >> \o Split(SubSeq(s, Len(SplitFirst(s, c)) + 2, Len(s)), c)
    ELSE << s >>

\* Lexicographic order of two strings by code point.
RECURSIVE StrLess(_, _)
StrLess(a, b) ==
    IF b = << >> THEN FALSE
    ELSE IF a = << >> THEN TRUE
    ELSE IF Head(a) = Head(b) THEN StrLess(Tail(a), Tail(b))
    ELSE Code(Head(a)) < Code(Head(b))

(***************************************************************************)
(* Fixed strings of the program                                            *)
(***************************************************************************)
KEYWORD == << "t", "y", "p", "e", "s", "t", "a", "t", "e", " " >>
MARKER  == << "_", "t", "y", "p", "e", "s", "t", "a", "t", "e" >>
NIM     == << ".", "n", "i", "m" >>

(***************************************************************************)
(* scripts/generate_diagrams.py: extract_typestate_name                    *)
(***************************************************************************)
RECURSIVE FirstDeclaration(_)
FirstDeclaration(lines) ==
    IF lines = << >> THEN << >>
    ELSE IF StartsWith(Strip(Head(lines)), KEYWORD) THEN << Strip(Head(lines)) >>
    ELSE FirstDeclaration(Tail(lines))

DeclaredName(line) ==
    LET name == RStrip(Replace(line, KEYWORD, << >>), {":"})
    IN  Strip(IF Contains(name, "[") THEN SplitFirst(name, "[") ELSE name)

extract_typestate_name(content, stem) ==
    LET decl == FirstDeclaration(Split(content, "\n"))
    IN  IF decl # << >> THEN DeclaredName(decl[1])
        ELSE Replace(stem, MARKER, << >>)


(***************************************************************************)
(* The world: file names, snippet texts, external tools                    *)
(***************************************************************************)
FA == << "a" >> \o MARKER \o NIM
FB == << "B" >> \o MARKER \o NIM
FC == << "c" >> \o MARKER \o NIM
FN == << "n" >> \o NIM

\* A snippet without a declaration line, and one declaring the generic C[T].
TPlain == << "x" >>
TDecl  == << " " >> \o KEYWORD \o << "C", "[", "T", "]", ":", "\n", "x" >>

Texts == {TPlain, TDecl}

\* The lines the name extraction is exercised on, and the texts made of at
\* most MaxLines of them
LPlain    == << "x" >>
LDecl     == KEYWORD \o << "C", ":" >>
LGeneric  == << " " >> \o KEYWORD \o << "C", "[", "T", "]", ":" >>
LNoColon  == KEYWORD \o << "A" >>
LTrailing == KEYWORD \o << "B", ":", " ", "x" >>

NameLines == {LPlain, LDecl, LGeneric, LNoColon, LTrailing}

RECURSIVE JoinLines(_)
JoinLines(ls) ==
    IF Len(ls) = 1 THEN ls[1] ELSE ls[1] \o << "\n" >> \o JoinLines(Tail(ls))

NameTexts == {JoinLines(ls) : ls \in UNION {[1..n -> NameLines] : n \in 1..MaxLines}}

\* A black-box tool is a fixed function of its input: per snippet text, both
\* stages exit 0, the compiler exits non-zero, or the layout of the compiler's
\* output exits non-zero.
Outcomes == {"ok", "cli_fail", "dot_fail"}

\* Values of an environment variable: absent, set to "", set to "1".
EnvValues == {"unset", "", "1"}

\* Path.stem: the file name without its last suffix
Stem(name) ==
    LET dots == {i \in 2..Len(name) : name[i] = "."}
    IN  IF dots = {} THEN name
        ELSE SubSeq(name, 1, (CHOOSE i \in dots : \A j \in dots : j <= i) - 1)

\* SNIPPETS_DIR.glob("*_typestate.nim")
Glob(dir) == {f \in DOMAIN dir : EndsWith(f, MARKER \o NIM)}

\* output_dir.glob("*.svg")
GlobSvg(o) == {k \in DOMAIN o : k[2] = "svg"}

\* The orders in which a directory scan may list a set of files
Orders(S) ==
    {s \in [1..Cardinality(S) -> S] : \A i, j \in 1..Cardinality(S) : i # j => s[i] # s[j]}

Unsorted(seq) == seq

\* sorted(snippet_files): paths of one directory compare by file name
Sorted(seq) ==
    CHOOSE s \in Orders({seq[i] : i \in 1..Len(seq)}) :
        \A i \in 1..(Len(s) - 1) : StrLess(s[i], s[i + 1])

\* stdout of "./bin/typestates dot <file>" and returncode
CliStdout(text) == [kind |-> "dot", src |-> text]

\* the image "dot -Tsvg" writes for a description file
DotImage(dotdata) == [kind |-> "svg", src |-> dotdata.src]

Truthy(v) == v \notin {"unset", ""}

AlwaysZero(success, total) == 0

OneSuccessIsEnough(success, total) == IF success = 0 THEN 1 ELSE 0

\* lines 118-120
ExitStatus(success, total) == IF success < total THEN 1 ELSE 0

EmptyFn == [x \in {} |-> 0]

VARIABLES
    snippetsDir,    \* examples/snippets exists
    files,          \* its files: name -> [text, mtime]
    cli,            \* bin/typestates: [exists, mtime]
    dotOnPath,      \* "dot" is on the search path
    tool,           \* behaviour of the two tools: text -> outcome
    outDir,         \* docs/assets/images/generated exists
    out,            \* its files: <<stem, ext>> -> [data, mtime]
    now,            \* file system clock
    env,            \* [SKIP_DIAGRAM_GEN, FORCE_DIAGRAM_GEN] of the hook's process
    pc,             \* position of the script
    caller,         \* "direct" or "hook"
    todo,           \* sorted(snippet_files)
    idx,            \* position of the for loop in todo
    captured,       \* result.stdout of the compiler
    success_count,
    ret,            \* return value of main
    stdout,         \* what the script printed
    hpc,            \* position of the hook
    verdict,        \* what _needs_regeneration returned to the hook, if called
    hooklog,        \* what the hook logged
    calls,          \* external tool invocations of the current run
    results,        \* return values of generate_diagram, in call order
    atStart,        \* files of the output directory when the script started
    runs,           \* entry point invocations so far
    edited,         \* a snippet was saved since the last invocation
    snap,           \* images and exit status at the end of the last script run
    prev            \* images at the end of the script run before, if nothing changed since

world == << snippetsDir, files, cli, dotOnPath, tool, outDir, out, now >>
frame == << pc, caller, todo, idx, captured, success_count, ret, stdout >>
hook  == << env, hpc, verdict, hooklog >>
hist  == << calls, results, atStart, runs, edited, snap, prev >>
vars  == << world, frame, hook, hist >>


(***************************************************************************)
(* File paths derived from a snippet                                       *)
(***************************************************************************)
\* lines 48-50 for every file and text of the model: a snippet's name is a
\* function of its path and content
ArtifactNames ==
    [f \in {FA, FB, FC, FN}, text \in Texts \cup NameTexts |->
        Lower(extract_typestate_name(text, Stem(f)))]

ArtifactStemAsDeclared(f, text) == extract_typestate_name(text, Stem(f))

\* scripts/generate_diagrams.py: name.lower() of generate_diagram
ArtifactStem(f, text) == ArtifactNames[f, text]

\* line 49: dot_file
dot_file(f, text) == << ArtifactStem(f, text), "dot" >>

svg_fileAsDeclared(f, text) == << extract_typestate_name(text, Stem(f)), "svg" >>

\* line 50: svg_file
svg_file(f, text) == << ArtifactStem(f, text), "svg" >>

\* hooks/generate_diagrams.py: stem of _needs_regeneration
HookStem(f) == Lower(Replace(Stem(f), MARKER, << >>))

Images(o) == [k \in GlobSvg(o) |-> o[k].data]

(***************************************************************************)
(* hooks/generate_diagrams.py: _needs_regeneration                         *)
(***************************************************************************)
needs_regenerationOwnImages(snippet_files, o, c) ==
    \/ \E f \in snippet_files :
          \/ << HookStem(f), "svg" >> \notin DOMAIN o
          \/ files[f].mtime > o[<< HookStem(f), "svg" >>].mtime
    \/ /\ c.exists
       /\ \E f \in snippet_files : c.mtime > o[<< HookStem(f), "svg" >>].mtime

needs_regeneration(snippet_files, o, c) ==
    \/ \E f \in snippet_files :
          \/ << HookStem(f), "svg" >> \notin DOMAIN o
          \/ files[f].mtime > o[<< HookStem(f), "svg" >>].mtime
    \/ /\ c.exists
       /\ \E k \in GlobSvg(o) : c.mtime > o[k].mtime

(***************************************************************************)
(* Initial states                                                          *)
(***************************************************************************)
NoFrame ==
    /\ pc = "idle" /\ caller = "none" /\ todo = << >> /\ idx = 0
    /\ captured = "none" /\ success_count = 0 /\ ret = -1 /\ stdout = << >>
    /\ hpc = "idle" /\ verdict = "none" /\ hooklog = << >>
    /\ calls = << >> /\ results = << >> /\ atStart = EmptyFn

\* the process is gone: nothing of a run is left but the files
ResetFrame ==
    /\ pc' = "idle" /\ caller' = "none" /\ todo' = << >> /\ idx' = 0
    /\ captured' = "none" /\ success_count' = 0 /\ ret' = -1 /\ stdout' = << >>
    /\ hpc' = "idle" /\ verdict' = "none" /\ hooklog' = << >>
    /\ calls' = << >> /\ results' = << >> /\ atStart' = EmptyFn

NoSnap == [valid |-> FALSE, images |-> EmptyFn, status |-> -1]

\* Output directories a run may find: none, or one holding an image made from
\* an earlier version of a snippet and an image of no current snippet.
OldImage == [kind |-> "svg", src |-> << "o", "l", "d" >>]

SeedOut(t) == [k \in {<< << "a" >>, "svg" >>, << << "z" >>, "svg" >>} |-> [data |-> OldImage, mtime |-> t]]

\* Modification times of the files that exist before the first run
InitTimes == {0, 1}

AllOk == [t \in Texts |-> "ok"]

\* A snippets directory holding the snippets S with the texts txt, saved at t
Snippets(S, txt, t) ==
    [f \in S \cup {FN} |-> [text |-> IF f \in S THEN txt[f] ELSE TPlain, mtime |-> t]]

NoHistory ==
    /\ NoFrame
    /\ runs = 0 /\ edited = TRUE
    /\ snap = NoSnap /\ prev = NoSnap

\* Direct runs: every set of snippets, every behaviour of the tools
Init ==
    /\ snippetsDir \in BOOLEAN
    /\ \E S \in SUBSET {FA, FB, FC} : \E txt \in [S -> Texts] :
          files = IF snippetsDir THEN Snippets(S, txt, 0) ELSE EmptyFn
    /\ cli \in {[exists |-> b, mtime |-> 0] : b \in BOOLEAN}
    /\ dotOnPath \in BOOLEAN
    /\ tool \in [Texts -> Outcomes]
    /\ \/ outDir = FALSE /\ out = EmptyFn
       \/ outDir = TRUE /\ out = SeedOut(0)
    /\ now = 0
    /\ env = [skip |-> "unset", force |-> "unset"]
    /\ NoHistory

\* Hook runs: every environment, every order of the modification times
InitHook ==
    /\ snippetsDir \in BOOLEAN
    /\ \E S \in SUBSET {FA, FB} : \E txt \in [S -> Texts] : \E t \in InitTimes :
          /\ FB \in S => txt[FB] = TPlain
          /\ files = IF snippetsDir THEN Snippets(S, txt, t) ELSE EmptyFn
    /\ cli \in {[exists |-> FALSE, mtime |-> 0]} \cup {[exists |-> TRUE, mtime |-> t] : t \in InitTimes}
    /\ dotOnPath \in BOOLEAN
    /\ tool \in {AllOk, [AllOk EXCEPT ![TDecl] = "dot_fail"]}
    /\ \/ outDir = FALSE /\ out = EmptyFn
       \/ outDir = TRUE /\ \E t \in InitTimes : out = SeedOut(t)
    /\ now = 1
    /\ env \in [skip : EnvValues, force : EnvValues]
    /\ NoHistory

(***************************************************************************)
(* scripts/generate_diagrams.py: main                                      *)
(***************************************************************************)
\* main returns r after printing msg; the images it leaves are recorded.
Return(r, msg) ==
    /\ pc' = "done"
    /\ ret' = r
    /\ stdout' = stdout \o msg
    /\ prev' = snap
    /\ snap' = [valid |-> TRUE, images |-> Images(out), status |-> r]

\* "python scripts/generate_diagrams.py" typed by the user
DirectRun ==
    /\ pc = "idle" /\ hpc = "idle"
    /\ runs < MaxRuns
    /\ runs' = runs + 1
    /\ edited' = FALSE
    /\ pc' = "main"
    /\ caller' = "direct"
    /\ UNCHANGED << world, hook, todo, idx, captured, success_count, ret, stdout,
                    calls, results, atStart, snap, prev >>

PreflightNoWarning(dirExists, cliExists, found) ==
    IF ~dirExists THEN "no_dir"
    ELSE IF ~cliExists THEN "no_cli"
    ELSE "loop"

\* lines 91-109: which of the early returns main takes, if any
Preflight(dirExists, cliExists, found) ==
    IF ~dirExists THEN "no_dir"
    ELSE IF ~cliExists THEN "no_cli"
    ELSE IF found = {} THEN "no_snippets"
    ELSE "loop"

\* lines 91-112: the checks before the loop, and the sorted work list
main_enter ==
    /\ pc = "main"
    /\ atStart' = out
    /\ LET way == Preflight(snippetsDir, cli.exists, Glob(files))
       IN  /\ outDir' = IF way = "no_dir" THEN outDir ELSE TRUE
           /\ IF way = "no_dir"
              THEN /\ Return(1, << << "ERROR: Snippets directory not found" >> >>)
                   /\ UNCHANGED << todo, idx, success_count >>
              ELSE IF way = "no_cli"
              THEN /\ Return(1, << << "ERROR: typestates CLI not found" >> >>)
                   /\ UNCHANGED << todo, idx, success_count >>
              ELSE IF way = "no_snippets"
              THEN /\ Return(0, << << "WARNING: No *_typestate.nim files found" >> >>)
                   /\ UNCHANGED << todo, idx, success_count >>
              ELSE /\ \E snippet_files \in Orders(Glob(files)) :
                         todo' = Sorted(snippet_files)
                   /\ idx' = 1
                   /\ success_count' = 0
                   /\ pc' = IF Len(todo') > 0 THEN "cli" ELSE "summary"
                   /\ UNCHANGED << ret, stdout, snap, prev >>
    /\ UNCHANGED << snippetsDir, files, cli, dotOnPath, tool, out, now,
                    hook, caller, captured, calls, results, runs, edited >>

NextPcOnce == "summary"

\* the for loop goes on with the next snippet, or is over
NextPc == IF idx < Len(todo) THEN "cli" ELSE "summary"

CliNeverFailed(code) == FALSE

\* line 61: result.returncode != 0
CliFailed(code) == code # 0

\* lines 48-63 of generate_diagram: run the compiler on todo[idx]
run_cli ==
    /\ pc = "cli"
    /\ LET f    == todo[idx]
           text == files[f].text
           code == IF tool[text] = "cli_fail" THEN 1 ELSE 0
       IN  /\ calls' = Append(calls, [tool |-> "typestates", arg |-> f, exit |-> code])
           /\ IF CliFailed(code)
              THEN /\ stdout' = stdout \o << << "Processing" >>, << "ERROR: typestates CLI failed" >> >>
                   /\ results' = Append(results, FALSE)
                   /\ idx' = idx + 1
                   /\ pc' = NextPc
                   /\ UNCHANGED captured
              ELSE /\ stdout' = Append(stdout, << "Processing" >>)
                   /\ captured' = CliStdout(text)
                   /\ pc' = "write"
                   /\ UNCHANGED << results, idx >>
    /\ UNCHANGED << world, hook, caller, todo, success_count, ret,
                    atStart, runs, edited, snap, prev >>

\* lines 65-67: dot_file.write_text(result.stdout)
write_dot ==
    /\ pc = "write"
    /\ LET f    == todo[idx]
           dot  == dot_file(f, files[f].text)
       IN  out' = [k \in DOMAIN out \cup {dot} |->
                      IF k = dot THEN [data |-> captured, mtime |-> now]
                      ELSE out[k]]
    /\ stdout' = Append(stdout, << "Created dot" >>)
    /\ pc' = "dot"
    /\ UNCHANGED << snippetsDir, files, cli, dotOnPath, tool, outDir, now, hook,
                    caller, todo, idx, captured, success_count, ret,
                    calls, results, atStart, runs, edited, snap, prev >>

\* lines 69-85: run the layout tool on the description file.  A layout tool
\* that fails, or is not found, writes nothing: the image path stays as it is.
run_dot ==
    /\ pc = "dot"
    /\ LET f    == todo[idx]
           svg  == svg_file(f, files[f].text)
           src  == out[dot_file(f, files[f].text)].data
           \* -1: no exit status, the executable was not found
           code == IF ~dotOnPath THEN -1
                   ELSE IF tool[src.src] = "dot_fail" THEN 1 ELSE 0
       IN  /\ calls' = Append(calls, [tool |-> "dot", arg |-> f, exit |-> code])
           /\ IF code = 0
              THEN /\ out' = [k \in DOMAIN out \cup {svg} |->
                                 IF k = svg
                                 THEN [data |-> DotImage(src), mtime |-> now]
                                 ELSE out[k]]
                   /\ stdout' = Append(stdout, << "Created svg" >>)
                   /\ results' = Append(results, TRUE)
                   /\ success_count' = success_count + 1
              ELSE /\ stdout' = Append(stdout, IF dotOnPath THEN << "ERROR: Graphviz failed" >>
                                                ELSE << "ERROR: 'dot' command not found" >>)
                   /\ results' = Append(results, FALSE)
                   /\ UNCHANGED << out, success_count >>
    /\ idx' = idx + 1
    /\ pc' = NextPc
    /\ UNCHANGED << snippetsDir, files, cli, dotOnPath, tool, outDir, now, hook,
                    caller, todo, captured, ret, atStart, runs, edited, snap, prev >>

\* lines 116-120: the summary and the exit status
main_summary ==
    /\ pc = "summary"
    /\ Return(ExitStatus(success_count, Len(todo)),
              << << "Generated", success_count, Len(todo) >> >>)
    /\ UNCHANGED << world, hook, caller, todo, idx, captured, success_count,
                    calls, results, atStart, runs, edited >>

\* lines 123-124: sys.exit(main())
sys_exit ==
    /\ pc = "done" /\ caller = "direct"
    /\ ResetFrame
    /\ UNCHANGED << world, env, runs, edited, snap, prev >>


(***************************************************************************)
(* hooks/generate_diagrams.py: on_pre_build                                *)
(***************************************************************************)
\* lines 49-94: every check of the hook up to the launch of the script.
\* The result names the log line, the verdict of the staleness check if it
\* was called, whether "dot -V" was run, and whether the script is launched.
SkippedUnlessForced(e) == Truthy(e.skip) /\ ~Truthy(e.force)

\* line 50: os.environ.get("SKIP_DIAGRAM_GEN")
Skipped(e) == Truthy(e.skip)

NeverForced(e) == FALSE

\* line 77: os.environ.get("FORCE_DIAGRAM_GEN")
Forced(e) == Truthy(e.force)

HookChecksProbeFirst(e) ==
    IF Skipped(e)
    THEN [log |-> "debug: skipping (SKIP_DIAGRAM_GEN set)", verdict |-> "none", probe |-> FALSE, launch |-> FALSE]
    ELSE IF ~snippetsDir
    THEN [log |-> "debug: no snippets directory", verdict |-> "none", probe |-> FALSE, launch |-> FALSE]
    ELSE IF Glob(files) = {}
    THEN [log |-> "debug: no snippet files", verdict |-> "none", probe |-> FALSE, launch |-> FALSE]
    ELSE IF ~cli.exists
    THEN [log |-> "warning: typestates CLI not found", verdict |-> "none", probe |-> FALSE, launch |-> FALSE]
    ELSE IF ~dotOnPath
    THEN [log |-> "warning: dot not found", verdict |-> "none", probe |-> TRUE, launch |-> FALSE]
    ELSE IF ~Forced(e) /\ ~needs_regeneration(Glob(files), out, cli)
    THEN [log |-> "debug: up-to-date", verdict |-> "fresh", probe |-> TRUE, launch |-> FALSE]
    ELSE [log |-> "info: generating",
          verdict |-> IF Forced(e) THEN "none" ELSE "stale", probe |-> TRUE, launch |-> TRUE]

\* lines 49-94: the tests of on_pre_build, in order, up to the launch
HookChecks(e) ==
    IF Skipped(e)
    THEN [log |-> "debug: skipping (SKIP_DIAGRAM_GEN set)", verdict |-> "none", probe |-> FALSE, launch |-> FALSE]
    ELSE IF ~snippetsDir
    THEN [log |-> "debug: no snippets directory", verdict |-> "none", probe |-> FALSE, launch |-> FALSE]
    ELSE IF Glob(files) = {}
    THEN [log |-> "debug: no snippet files", verdict |-> "none", probe |-> FALSE, launch |-> FALSE]
    ELSE IF ~cli.exists
    THEN [log |-> "warning: typestates CLI not found", verdict |-> "none", probe |-> FALSE, launch |-> FALSE]
    ELSE IF ~Forced(e) /\ ~needs_regeneration(Glob(files), out, cli)
    THEN [log |-> "debug: up-to-date", verdict |-> "fresh", probe |-> FALSE, launch |-> FALSE]
    ELSE IF ~dotOnPath
    THEN [log |-> "warning: dot not found",
          verdict |-> IF Forced(e) THEN "none" ELSE "stale", probe |-> TRUE, launch |-> FALSE]
    ELSE [log |-> "info: generating",
          verdict |-> IF Forced(e) THEN "none" ELSE "stale", probe |-> TRUE, launch |-> TRUE]

on_pre_build ==
    /\ pc = "idle" /\ hpc = "idle"
    /\ runs < MaxRuns
    /\ runs' = runs + 1
    /\ edited' = FALSE
    /\ LET c == HookChecks(env)
       IN  /\ hooklog' = << c.log >>
           /\ verdict' = c.verdict
           /\ calls' = IF c.probe
                       THEN << [tool |-> "dot -V", arg |-> << >>,
                                exit |-> IF dotOnPath THEN 0 ELSE -1] >>
                       ELSE << >>
           /\ IF c.launch
              THEN hpc' = "waiting" /\ pc' = "main" /\ caller' = "hook"
              ELSE hpc' = "returned" /\ UNCHANGED << pc, caller >>
    /\ UNCHANGED << world, env, todo, idx, captured, success_count, ret, stdout,
                    results, atStart, snap, prev >>

RaiseOnFailure(returncode) == IF returncode # 0 THEN "raised" ELSE "returned"

\* lines 99-108: subprocess.run without check=True raises nothing, whatever
\* the exit status of the script; the hook goes on to its last statement
AfterScript(returncode) == "returned"

\* lines 105-108: the script has exited
hook_result ==
    /\ hpc = "waiting" /\ pc = "done"
    /\ hooklog' = Append(hooklog, IF ret # 0 THEN "error: generation failed"
                                  ELSE "info: generated")
    /\ hpc' = AfterScript(ret)
    /\ UNCHANGED << world, frame, env, verdict, hist >>

\* the hook returns to the build
hook_return ==
    /\ hpc \in {"returned", "raised"}
    /\ ResetFrame
    /\ UNCHANGED << world, env, runs, edited, snap, prev >>

(***************************************************************************)
(* The author, between runs                                                *)
(***************************************************************************)
\* the author saves a snippet, later than everything that happened so far
EditSnippet ==
    /\ pc = "idle" /\ hpc = "idle"
    /\ snippetsDir
    /\ ~edited /\ runs < MaxRuns
    /\ edited' = TRUE
    /\ now' = now + 1
    /\ \E f \in {FA, FB, FC} \cap DOMAIN files, t \in Texts :
          files' = [files EXCEPT ![f] = [text |-> t, mtime |-> now']]
    /\ snap' = NoSnap
    /\ UNCHANGED << snippetsDir, cli, dotOnPath, tool, outDir, out,
                    frame, hook, calls, results, atStart, runs, prev >>

Next ==
    \/ DirectRun
    \/ main_enter
    \/ run_cli
    \/ write_dot
    \/ run_dot
    \/ main_summary
    \/ sys_exit
    \/ EditSnippet

Spec == Init /\ [][Next]_vars

NextHook ==
    \/ on_pre_build
    \/ main_enter
    \/ run_cli
    \/ write_dot
    \/ run_dot
    \/ main_summary
    \/ hook_result
    \/ hook_return
    \/ EditSnippet

SpecHook == InitHook /\ [][NextHook]_vars


(***************************************************************************)
(* Vocabulary of the properties                                            *)
(***************************************************************************)
Range(seq) == {seq[i] : i \in 1..Len(seq)}

\* the snippets the run discovered
Discovered == Glob(files)

\* both stages were run on f and exited zero
Rendered(f) ==
    /\ [tool |-> "typestates", arg |-> f, exit |-> 0] \in Range(calls)
    /\ [tool |-> "dot", arg |-> f, exit |-> 0] \in Range(calls)

\* the snippets handed to the compiler, in call order
Attempted ==
    LET cs == SelectSeq(calls, LAMBDA c : c.tool = "typestates")
    IN  [i \in 1..Len(cs) |-> cs[i].arg]

\* the snippets handed to the layout tool, in call order
LaidOut ==
    LET cs == SelectSeq(calls, LAMBDA c : c.tool = "dot")
    IN  [i \in 1..Len(cs) |-> cs[i].arg]

\* the number of generate_diagram calls that returned True
Successes == Cardinality({i \in 1..Len(results) : results[i]})

\* the summary lines the script printed
Summaries == SelectSeq(stdout, LAMBDA m : m[1] = "Generated")

\* the image of snippet f: its ArtifactName, lowercased, with the image extension
ImageOf(f) == << Lower(extract_typestate_name(files[f].text, Stem(f))), "svg" >>

\* a run of the script is over and its loop was entered
LoopDone == pc = "done" /\ snippetsDir /\ cli.exists /\ Discovered # {}

(***************************************************************************)
(* C1: when the snippets directory and the compiler exist and at least one *)
(* snippet is discovered, main returns 0 if every discovered snippet was   *)
(* rendered (both stages exited zero) and 1 otherwise; the count it        *)
(* reports is the number of generate_diagram calls that returned True,     *)
(* which are the rendered snippets, and is at most the number discovered.  *)
(***************************************************************************)
C1_ExitStatus ==
    LoopDone =>
        /\ ret \in {0, 1}
        /\ ret = 0 <=> \A f \in Discovered : Rendered(f)
        /\ Len(results) = Len(todo)
        /\ \A i \in 1..Len(todo) : results[i] <=> Rendered(todo[i])
        /\ Summaries = << << "Generated", Successes, Cardinality(Discovered) >> >>
        /\ Successes <= Cardinality(Discovered)

\* two of three snippets rendered and main returned 1
C1_Witness ==
    /\ LoopDone /\ caller = "direct"
    /\ Cardinality(Discovered) = 3 /\ Successes = 2 /\ ret = 1

(***************************************************************************)
(* C2 as stated: when the snippets directory exists and holds no snippet,  *)
(* main returns 0 and prints the summary count 0/0.                        *)
(***************************************************************************)
C2_AsStated ==
    (pc = "done" /\ snippetsDir /\ Discovered = {}) =>
        /\ ret = 0
        /\ << "Generated", 0, 0 >> \in Range(stdout)

(***************************************************************************)
(* C2 amended: when the snippets directory exists and holds no snippet,    *)
(* main prints no summary count; if the compiler binary exists it returns  *)
(* 0 after the warning that no snippet was found and invokes no tool, and  *)
(* if the compiler binary is missing it returns 1.                         *)
(***************************************************************************)
C2_NoSnippets ==
    (pc = "done" /\ snippetsDir /\ Discovered = {}) =>
        /\ Summaries = << >>
        /\ Attempted = << >>
        /\ out = atStart
        /\ IF cli.exists
           THEN ret = 0 /\ stdout = << << "WARNING: No *_typestate.nim files found" >> >>
           ELSE ret = 1

\* a directory holding only a file that is no snippet, with the compiler built
C2_Witness ==
    /\ pc = "done" /\ caller = "direct" /\ ret = 0
    /\ snippetsDir /\ Discovered = {} /\ DOMAIN files # {} /\ cli.exists

(***************************************************************************)
(* C3 as stated: main returns 1 whenever the snippets directory, the       *)
(* compiler binary or the layout tool is missing, for every set of         *)
(* discovered snippets.                                                    *)
(***************************************************************************)
C3_AsStated ==
    (pc = "done" /\ (~snippetsDir \/ ~cli.exists \/ ~dotOnPath)) => ret = 1

(***************************************************************************)
(* C3 amended: main returns 1 whenever the snippets directory is missing,  *)
(* the compiler binary is missing, or the layout tool is missing and at    *)
(* least one snippet is discovered.                                        *)
(***************************************************************************)
C3_MissingTool ==
    (pc = "done" /\ (~snippetsDir \/ ~cli.exists \/ (~dotOnPath /\ Discovered # {}))) => ret = 1

\* the layout tool alone is missing and the compiler accepted a snippet
C3_Witness ==
    /\ LoopDone /\ caller = "direct" /\ ~dotOnPath /\ ret = 1
    /\ \E c \in Range(calls) : c.tool = "dot" /\ c.exit = -1

(***************************************************************************)
(* C4: a failure never aborts the batch: when the loop is over, every      *)
(* discovered snippet was handed to the compiler exactly once, in          *)
(* ascending order of its path, whatever the earlier snippets returned     *)
(* and whenever the snippets were saved.                                   *)
(***************************************************************************)
C4_EveryoneOnceInOrder ==
    LoopDone =>
        /\ Range(Attempted) = Discovered
        /\ Len(Attempted) = Cardinality(Discovered)
        /\ \A i \in 1..(Len(Attempted) - 1) : StrLess(Attempted[i], Attempted[i + 1])

\* three snippets, the first one failed, and the last saved is not the last run
C4_Witness ==
    /\ LoopDone /\ caller = "direct"
    /\ Len(Attempted) = 3 /\ ~results[1] /\ Attempted = << FB, FA, FC >>
    /\ files[FB].mtime > files[FC].mtime


\* the compiler accepted every snippet, and the layout tool failed for some
\* snippets and succeeded for the others
MixedLayout ==
    /\ \A c \in Range(calls) : c.tool = "typestates" => c.exit = 0
    /\ \E c \in Range(calls) : c.tool = "dot" /\ c.exit # 0
    /\ \E c \in Range(calls) : c.tool = "dot" /\ c.exit = 0

(***************************************************************************)
(* C5 as stated: after a run in which the layout tool fails for some       *)
(* snippets and succeeds for the others, the exit status is non-zero, an   *)
(* image exists for every snippet that succeeded and no image exists for   *)
(* any snippet that failed.                                                *)
(***************************************************************************)
C5_AsStated ==
    (LoopDone /\ MixedLayout) =>
        /\ ret = 1
        /\ \A i \in 1..Len(todo) : results[i] <=> ImageOf(todo[i]) \in DOMAIN out

(***************************************************************************)
(* C5 amended: after such a run the exit status is non-zero and an image   *)
(* exists for every snippet that succeeded; for a snippet that failed the  *)
(* run neither creates, changes nor removes the image: its image path is   *)
(* as it was before the run (absent if it was absent), unless another      *)
(* snippet of the same artifact name succeeded in the run.                 *)
(***************************************************************************)
C5_PartialFailure ==
    (LoopDone /\ MixedLayout) =>
        /\ ret = 1
        /\ \A i \in 1..Len(todo) :
              LET image == ImageOf(todo[i])
              IN  IF results[i] THEN image \in DOMAIN out
                  ELSE \/ \E j \in 1..Len(todo) : results[j] /\ ImageOf(todo[j]) = image
                       \/ /\ image \in DOMAIN out <=> image \in DOMAIN atStart
                          /\ image \in DOMAIN out => out[image] = atStart[image]

\* three snippets into an empty output directory, one layout failure: 2 of 3,
\* two images and none for the failed snippet
C5_Witness ==
    /\ LoopDone /\ MixedLayout /\ caller = "direct"
    /\ Cardinality(Discovered) = 3 /\ Successes = 2 /\ atStart = EmptyFn
    /\ Cardinality(GlobSvg(out)) = 2
    /\ \E i \in 1..3 : ~results[i] /\ ImageOf(todo[i]) \notin DOMAIN out

(***************************************************************************)
(* C10: idempotence.  The tools being fixed functions of their input, at   *)
(* the end of a run of the script that follows another run with no file    *)
(* saved in between, every image is byte-identical to what it was at the   *)
(* end of the run before, and no image appeared or disappeared.            *)
(***************************************************************************)
C10_Idempotent ==
    (pc = "done" /\ prev.valid) => Images(out) = prev.images

\* a second run with a failing and a succeeding snippet over an output
\* directory that held images before the first run
C10_Witness ==
    /\ LoopDone /\ prev.valid /\ runs = 2 /\ caller = "direct"
    /\ Successes >= 1 /\ Successes < Len(todo)
    /\ << << "z" >>, "svg" >> \in DOMAIN out
    /\ Images(out) # Images(SeedOut(0))


(***************************************************************************)
(* C6: if some snippet has no image at its expected path (its              *)
(* ArtifactName as extract_typestate_name gives it, lowercased, with the   *)
(* image extension), the staleness check of the hook reports that          *)
(* regeneration is needed: it never answers "up to date" then.             *)
(***************************************************************************)
C6_MissingImageIsStale ==
    (hpc = "returned" /\ verdict = "fresh") =>
        \A f \in Discovered : ImageOf(f) \in DOMAIN out

\* every snippet has its image, not older than the snippet
AllCurrent ==
    \A f \in Discovered :
        /\ ImageOf(f) \in DOMAIN out
        /\ out[ImageOf(f)].mtime >= files[f].mtime

\* the compiler binary is older than every image in the output directory
CliOlder == \A k \in GlobSvg(out) : cli.mtime < out[k].mtime

(***************************************************************************)
(* C7: if every snippet's image exists and is not older than the snippet,  *)
(* and the compiler binary is older than every image in the output         *)
(* directory, the staleness check of the hook answers "up to date".        *)
(* (Before the script has started, the files are those the check saw.)     *)
(***************************************************************************)
C7_CurrentIsFresh ==
    (verdict # "none" /\ pc \in {"idle", "main"} /\ AllCurrent /\ CliOlder) =>
        verdict = "fresh"

\* the files a run may create or change
fs == << snippetsDir, files, cli, outDir, out >>

(***************************************************************************)
(* C8: with the skip switch set, whatever the files and the force switch,  *)
(* the hook runs no external tool (neither "dot -V" nor the script),       *)
(* leaves every file as it was, logs no warning or error and returns.      *)
(***************************************************************************)
C8_SkipDoesNothing ==
    [][(Truthy(env.skip) /\ (hpc # "idle" \/ hpc' # "idle")) =>
          /\ fs' = fs
          /\ calls' = << >>
          /\ pc' = "idle"
          /\ hpc' \in {"returned", "idle"}
          /\ hpc' = "returned" => hooklog' = << "debug: skipping (SKIP_DIAGRAM_GEN set)" >>]_vars

\* the hook returned at once although the force switch was set, the images
\* were stale and both tools were there
C8_Witness ==
    /\ hpc = "returned" /\ Truthy(env.skip) /\ Truthy(env.force)
    /\ snippetsDir /\ Discovered # {} /\ cli.exists /\ dotOnPath
    /\ needs_regeneration(Discovered, out, cli)
    /\ calls = << >>

(***************************************************************************)
(* C9: with the force switch set and the skip switch unset, the hook does  *)
(* not call the staleness check and runs the script (after its "dot -V"    *)
(* probe) whatever the modification times of the snippets, the images and  *)
(* the compiler binary are, also when every image is up to date; this is   *)
(* for a hook that has snippets, the compiler binary and the layout tool.  *)
(***************************************************************************)
C9_ForceBypassesOracle ==
    (/\ hpc # "idle" /\ ~Truthy(env.skip) /\ Truthy(env.force)
     /\ snippetsDir /\ Discovered # {} /\ cli.exists /\ dotOnPath) =>
        /\ verdict = "none"
        /\ caller = "hook" /\ pc # "idle"
        /\ calls # << >> /\ calls[1].tool = "dot -V" /\ calls[1].exit = 0

\* the script was launched although the staleness check would have answered
\* "up to date"
C9_Witness ==
    /\ hpc = "waiting" /\ pc = "main" /\ caller = "hook"
    /\ ~Truthy(env.skip) /\ Truthy(env.force)
    /\ ~needs_regeneration(Discovered, out, cli)

(***************************************************************************)
(* C11: on_pre_build never fails the build around it.  It raises nothing,  *)
(* and when the snippets directory is missing, the compiler binary is      *)
(* missing, the layout tool does not answer its probe, or the generation   *)
(* script exits non-zero, it has returned with the step skipped (nothing   *)
(* launched, one debug or warning line) or with the failure logged as an   *)
(* error line.                                                             *)
(***************************************************************************)
C11_HookNeverFails ==
    /\ hpc # "raised"
    /\ (hpc = "returned" /\ ~Truthy(env.skip)) =>
          /\ ~snippetsDir =>
                /\ hooklog = << "debug: no snippets directory" >>
                /\ pc = "idle" /\ calls = << >>
          /\ (snippetsDir /\ Discovered # {} /\ ~cli.exists) =>
                /\ hooklog = << "warning: typestates CLI not found" >>
                /\ pc = "idle" /\ calls = << >>
          /\ (calls # << >> /\ calls[1] = [tool |-> "dot -V", arg |-> << >>, exit |-> -1]) =>
                /\ hooklog = << "warning: dot not found" >>
                /\ pc = "idle" /\ Len(calls) = 1
          /\ (pc = "done" /\ ret # 0) =>
                hooklog = << "info: generating", "error: generation failed" >>

\* the script failed and the hook has returned all the same
C11_Witness == hpc = "returned" /\ pc = "done" /\ ret = 1 /\ caller = "hook"

(***************************************************************************)
(* Name extraction on its own: one snippet, every text of at most MaxLines *)
(* lines, both tools succeeding, an empty output directory                 *)
(***************************************************************************)
InitName ==
    /\ snippetsDir = TRUE
    /\ \E f \in {FA, FB, FC} : \E t \in NameTexts :
          files = Snippets({f}, [g \in {f} |-> t], 0)
    /\ cli = [exists |-> TRUE, mtime |-> 0]
    /\ dotOnPath = TRUE
    /\ tool = [t \in NameTexts \cup Texts |-> "ok"]
    /\ outDir = FALSE /\ out = EmptyFn
    /\ now = 0
    /\ env = [skip |-> "unset", force |-> "unset"]
    /\ NoHistory

SpecName == InitName /\ [][Next]_vars

\* The name as the sentence defines it: a declaration line is a trimmed line
\* made of the keyword, a name and a final colon; the name is what stands
\* between the two, cut at the first bracket and trimmed.
IsDeclarationAsStated(line) ==
    /\ StartsWith(line, KEYWORD)
    /\ Len(line) > Len(KEYWORD) + 1
    /\ line[Len(line)] = ":"

RECURSIVE FirstAsStated(_)
FirstAsStated(lines) ==
    IF lines = << >> THEN << >>
    ELSE IF IsDeclarationAsStated(Strip(Head(lines))) THEN << Strip(Head(lines)) >>
    ELSE FirstAsStated(Tail(lines))

NameAsStated(content, stem) ==
    LET decl == FirstAsStated(Split(content, "\n"))
    IN  IF decl # << >>
        THEN Strip(SplitFirst(SubSeq(decl[1], Len(KEYWORD) + 1, Len(decl[1]) - 1), "["))
        ELSE IF EndsWith(stem, MARKER) THEN SubSeq(stem, 1, Len(stem) - Len(MARKER))
        ELSE stem

(***************************************************************************)
(* C12: extract_typestate_name returns, for the first line that once       *)
(* trimmed is the keyword, a name and a trailing colon, the text between   *)
(* keyword and colon, cut at the first opening bracket and trimmed; with   *)
(* no such line it returns the file stem without its _typestate suffix.    *)
(* Seen through a run: the description file of every compiled snippet      *)
(* carries that name, lowercased.                                          *)
(***************************************************************************)
C12_NameAsStated ==
    LoopDone =>
        \A f \in Discovered :
            [tool |-> "typestates", arg |-> f, exit |-> 0] \in Range(calls) =>
                /\ extract_typestate_name(files[f].text, Stem(f))
                      = NameAsStated(files[f].text, Stem(f))
                /\ << Lower(NameAsStated(files[f].text, Stem(f))), "dot" >> \in DOMAIN out

\* the description file of snippet f: its ArtifactName, lowercased
DescriptionOf(f) == << Lower(extract_typestate_name(files[f].text, Stem(f))), "dot" >>

(***************************************************************************)
(* C13: the two stages of generate_diagram run in order.  The layout tool  *)
(* is started on a snippet only when the call just before was the compiler *)
(* on that snippet, exited 0, and the description file holds the output    *)
(* captured from it.  When the compiler exits non-zero the snippet is over *)
(* at once, counted as a failure, with no file created or modified, and    *)
(* the layout tool is never started on it.                                 *)
(***************************************************************************)
C13_StageOrder ==
    [][ LET last == calls'[Len(calls')]
        IN  /\ (Len(calls') = Len(calls) + 1 /\ last.tool = "dot") =>
                  /\ calls # << >>
                  /\ calls[Len(calls)] = [tool |-> "typestates", arg |-> last.arg, exit |-> 0]
                  /\ DescriptionOf(last.arg) \in DOMAIN out
                  /\ out[DescriptionOf(last.arg)].data = CliStdout(files[last.arg].text)
            /\ (Len(calls') = Len(calls) + 1 /\ last.tool = "typestates" /\ last.exit # 0) =>
                  /\ out' = out /\ files' = files
                  /\ results' = Append(results, FALSE)
                  /\ idx' = idx + 1 /\ pc' \in {"cli", "summary"}
            /\ \A i, j \in 1..Len(calls') :
                  (calls'[i].tool = "typestates" /\ calls'[i].exit # 0 /\ calls'[j].tool = "dot")
                      => calls'[j].arg # calls'[i].arg
      ]_vars

\* one snippet stopped at the compiler, another went through both stages
C13_Witness ==
    /\ pc = "done"
    /\ \E f, g \in Discovered :
          /\ [tool |-> "typestates", arg |-> f, exit |-> 1] \in Range(calls)
          /\ [tool |-> "dot", arg |-> g, exit |-> 0] \in Range(calls)

\* the files of the output directory that differ between o1 and o2
Changed(o1, o2) ==
    {k \in DOMAIN o1 \cup DOMAIN o2 :
        k \notin DOMAIN o1 \/ k \notin DOMAIN o2 \/ o1[k] # o2[k]}

(***************************************************************************)
(* C14: a run of the script creates or changes, in the output directory,   *)
(* only <name>.dot and <name>.svg for the lowercased ArtifactNames of the  *)
(* snippets it processes: the description file for a snippet whose         *)
(* compiler stage succeeded, the image too when the layout stage           *)
(* succeeded as well, and nothing else.  No output file is removed, every  *)
(* other file of the directory is as it was when the run started, and no   *)
(* snippet file changes during a run.                                      *)
(***************************************************************************)
C14_Frame ==
    /\ [](pc = "done" =>
            /\ DOMAIN atStart \subseteq DOMAIN out
            /\ Changed(atStart, out) \subseteq
                  {DescriptionOf(f) : f \in {g \in Discovered :
                        [tool |-> "typestates", arg |-> g, exit |-> 0] \in Range(calls)}}
                  \cup {ImageOf(f) : f \in {g \in Discovered : Rendered(g)}}
            /\ \A f \in Discovered : Rendered(f) =>
                  {DescriptionOf(f), ImageOf(f)} \subseteq DOMAIN out)
    /\ [][ pc # "idle" =>
            /\ files' = files
            /\ Changed(out, out') # {} =>
                  /\ pc \in {"write", "dot"}
                  /\ Changed(out, out') =
                        {IF pc = "write" THEN DescriptionOf(todo[idx]) ELSE ImageOf(todo[idx])}
                  /\ pc = "dot" => results' = Append(results, TRUE)
            /\ (pc = "dot" /\ results' = Append(results, FALSE)) => out' = out
         ]_vars

\* a run rendered one snippet, stopped another at the layout stage, and an
\* image of no snippet is still what it was
C14_Witness ==
    /\ pc = "done"
    /\ \E f, g \in Discovered :
          /\ Rendered(f)
          /\ [tool |-> "dot", arg |-> g, exit |-> 1] \in Range(calls)
          /\ DescriptionOf(g) \notin DOMAIN atStart
    /\ << << "z" >>, "svg" >> \in DOMAIN atStart
    /\ out[<< << "z" >>, "svg" >>] = atStart[<< << "z" >>, "svg" >>]

\* the compiler binary exists and is strictly newer than some image of the
\* output directory, whatever snippet the image belongs to
ToolNewer == cli.exists /\ \E k \in GlobSvg(out) : cli.mtime > out[k].mtime

\* the snippet clause of the staleness check (hook lines 24-34): the image
\* named after a snippet's file stem is missing or older than the snippet
SnippetClause ==
    \E f \in Discovered :
        LET img == << Lower(Replace(Stem(f), MARKER, << >>)), "svg" >>
        IN  img \notin DOMAIN out \/ files[f].mtime > out[img].mtime

\* the hook has consulted the staleness check and no file has changed since
Consulted == verdict # "none" /\ pc \in {"idle", "main"}

(***************************************************************************)
(* C15: the tool clause of the staleness check.  When the compiler binary  *)
(* exists and is strictly newer than any image of the output directory,    *)
(* an image of no current snippet included, the check answers that         *)
(* regeneration is needed.  A binary not newer than any image never makes  *)
(* the check answer so by itself: the answer is then the snippet clause's. *)
(* An absent binary contributes nothing to the answer.                     *)
(***************************************************************************)
C15_ToolClause ==
    /\ Consulted =>
          /\ ToolNewer => verdict = "stale"
          /\ (verdict = "stale" /\ ~ToolNewer) => SnippetClause
    /\ (pc = "idle" /\ ~ToolNewer) =>
          (needs_regeneration(Discovered, out, cli) <=> SnippetClause)
    /\ (pc = "idle" /\ ~cli.exists) =>
          (needs_regeneration(Discovered, out, cli) <=> SnippetClause)

\* regeneration is asked for only because the binary is newer than an image
\* of no snippet
C15_Witness ==
    /\ Consulted /\ verdict = "stale"
    /\ ~SnippetClause
    /\ \A k \in GlobSvg(out) :
          cli.mtime > out[k].mtime <=> k \notin {ImageOf(f) : f \in Discovered}

(***************************************************************************)
(* C16: with SKIP_DIAGRAM_GEN and FORCE_DIAGRAM_GEN unset (or empty) and   *)
(* snippets, compiler binary and images such that the staleness check      *)
(* answers "up to date", a hook invocation starts no external process,     *)
(* neither the dot probe nor the script, changes no file, and returns.     *)
(***************************************************************************)
C16_UpToDateDoesNothing ==
    [][ ( /\ hpc = "idle" /\ hpc' # "idle"
          /\ ~Truthy(env.skip) /\ ~Truthy(env.force)
          /\ snippetsDir /\ Discovered # {} /\ cli.exists
          /\ ~ToolNewer /\ ~SnippetClause )
        => /\ calls' = << >>
           /\ pc' = "idle"
           /\ hpc' = "returned"
           /\ verdict' = "fresh"
           /\ hooklog' = << "debug: up-to-date" >>
           /\ fs' = fs /\ dotOnPath' = dotOnPath
      ]_vars

\* the hook found the diagrams up to date although the layout tool is there
\* and images were regenerated by an earlier invocation
C16_Witness ==
    /\ hpc = "returned" /\ verdict = "fresh"
    /\ dotOnPath /\ calls = << >>
    /\ snap.valid

(***************************************************************************)
(* C17: the cache converges.  When the script launched by the hook has     *)
(* rendered every snippet (exit status 0) and no snippet, binary or output *)
(* file was modified afterwards, the next hook invocation without          *)
(* FORCE_DIAGRAM_GEN finds the diagrams up to date and does not            *)
(* regenerate, whatever the declared names of the snippets and whatever    *)
(* other images the output directory holds.                                *)
(***************************************************************************)
C17_Converges ==
    (Consulted /\ snap.valid /\ snap.status = 0 /\ runs > 1) => verdict = "fresh"

\* the discovered snippets whose image is the file k
Colliding(k) == {f \in Discovered : ImageOf(f) = k}

\* the error lines of generate_diagram
Errors ==
    SelectSeq(stdout, LAMBDA m : m[1] \in {"ERROR: typestates CLI failed",
                                           "ERROR: Graphviz failed",
                                           "ERROR: 'dot' command not found"})

(***************************************************************************)
(* C18: when several discovered snippets have the same lowercased          *)
(* ArtifactName and all of them render successfully in one run, each is    *)
(* counted as a success, and after the run the one <name>.dot and          *)
(* <name>.svg hold the output of the snippet that is last in sorted path   *)
(* order.  The collision is not reported: the only error lines are those   *)
(* of snippets that failed, and with no failure the run returns 0.         *)
(***************************************************************************)
C18_LastWriterWins ==
    LoopDone =>
        /\ \A k \in {ImageOf(f) : f \in Discovered} :
              (Cardinality(Colliding(k)) >= 2 /\ \A f \in Colliding(k) : Rendered(f)) =>
                  LET last == CHOOSE f \in Colliding(k) :
                                  \A g \in Colliding(k) \ {f} : StrLess(g, f)
                  IN  /\ out[k].data = DotImage(CliStdout(files[last].text))
                      /\ out[DescriptionOf(last)].data = CliStdout(files[last].text)
                      /\ Successes >= Cardinality(Colliding(k))
        /\ Summaries = << << "Generated", Cardinality({f \in Discovered : Rendered(f)}),
                             Cardinality(Discovered) >> >>
        /\ Len(Errors) = Cardinality({f \in Discovered : ~Rendered(f)})
        /\ (\A f \in Discovered : Rendered(f)) => ret = 0

\* a_typestate.nim declares C and c_typestate.nim declares nothing: both
\* rendered into c.svg, which now shows c_typestate.nim
C18_Witness ==
    /\ LoopDone /\ ret = 0
    /\ {FA, FC} \subseteq Discovered
    /\ files[FA].text = TDecl /\ files[FC].text = TPlain
    /\ ImageOf(FA) = ImageOf(FC)
    /\ Rendered(FA) /\ Rendered(FC)
    /\ out[ImageOf(FA)].data = DotImage(CliStdout(TPlain))

\* the images the script has written (those found at the start are OldImage)
Written == {k \in GlobSvg(out) : out[k].data # OldImage}

\* the description file of the same name as image k
DotOf(k) == << k[1], "dot" >>

\* C19 as first stated: after a run every written image is the layout of the
\* current description file of its name, runs with a layout failure included
C19_AsStated ==
    pc = "done" =>
        \A k \in Written :
            /\ DotOf(k) \in DOMAIN out
            /\ out[k].data = DotImage(out[DotOf(k)].data)

(***************************************************************************)
(* C19: after any sequence of direct runs, every image the script wrote    *)
(* has the description file of the same name beside it, and the image is   *)
(* the layout of the current content of that description file unless the   *)
(* layout tool fails on that content: a layout failure leaves the new      *)
(* description file next to the image of the last successful rendering.    *)
(***************************************************************************)
C19_PairUnlessLayoutFailed ==
    pc = "done" =>
        \A k \in Written :
            /\ DotOf(k) \in DOMAIN out
            /\ out[DotOf(k)].data.kind = "dot"
            /\ \/ out[k].data = DotImage(out[DotOf(k)].data)
               \/ /\ tool[out[DotOf(k)].data.src] = "dot_fail"
                  /\ tool[out[k].data.src] = "ok"

\* a description file newer than, and different from, the source of its image
C19_Witness ==
    /\ pc = "done"
    /\ \E k \in Written :
          /\ out[k].data # DotImage(out[DotOf(k)].data)
          /\ out[DotOf(k)].mtime > out[k].mtime

(***************************************************************************)
(* Direct runs under the scheduling of a sequential script: every          *)
(* statement of main is reached once the one before has returned, the      *)
(* external tools included (they are taken to return)                      *)
(***************************************************************************)
\* the statement of main the script is at
Statement == main_enter \/ run_cli \/ write_dot \/ run_dot \/ main_summary

SpecFair == Init /\ [][Next]_vars /\ WF_vars(Statement)

\* the number of times f occurs in the sequence seq
Count(seq, f) == Cardinality({i \in 1..Len(seq) : seq[i] = f})

(***************************************************************************)
(* C20: a direct run that has started eventually returns an exit status.   *)
(* No tool is ever started twice on one snippet in a run.  When the run    *)
(* returns with the snippets directory and the compiler binary present,    *)
(* the compiler was started exactly once on every discovered snippet and   *)
(* the layout tool at most once; the run returns without this only on a    *)
(* configuration error, with status 1, before any tool was started or any  *)
(* file written.                                                           *)
(***************************************************************************)
C20_TerminatesWithoutRetry ==
    /\ (pc = "main") ~> (pc = "done")
    /\ [](\A f \in DOMAIN files : Count(Attempted, f) <= 1 /\ Count(LaidOut, f) <= 1)
    /\ [](pc = "done" =>
            IF snippetsDir /\ cli.exists
            THEN /\ Range(Attempted) = Discovered
                 /\ Range(LaidOut) \subseteq Discovered
                 /\ Len(results) = Cardinality(Discovered)
            ELSE /\ ret = 1
                 /\ calls = << >> /\ results = << >>
                 /\ out = atStart)

\* a run of three snippets returned after a compiler failure and two layout
\* failures, each tool started once per snippet at most
C20_Witness ==
    /\ pc = "done" /\ ret = 1
    /\ Len(Attempted) = 3
    /\ Len(LaidOut) = 2
    /\ Successes = 0

====
